---- MODULE Spec2Model ----
(***************************************************************************)
(* The read_mail Ansible module: run_module() of                           *)
(*   lib/ansible/modules/net_tools/basics/read_mail.py  ("basics")         *)
(*   lib/ansible/modules/notification/read_mail.py      ("notification")   *)
(* as a state machine.  One behaviour is one invocation of run_module.     *)
(* The IMAP server and imaplib are the environment: each command's reply   *)
(* is a nondeterministic choice among the replies imaplib can hand back    *)
(* (a status, or an exception).                                            *)
(***************************************************************************)
EXTENDS Integers, Sequences, FiniteSets, TLC

VARIABLES
    variant,        \* which of the two source files is running
    check_mode,     \* module.check_mode
    PY3,            \* ansible.module_utils.six.PY3
    params,         \* module.params
    result,         \* the result dict
    pc,             \* position in run_module
    M_state,        \* the imaplib session's state ("NONE": no session object)
    conn,           \* how the connection was opened
    calls,          \* the commands run_module has invoked, in order
    search_array,   \* the tokens handed to M.search
    login_status,   \* "OK" or "rejected" once M.login has answered
    select_status,  \* status M.select returned
    search_status,  \* status M.search returned
    fetch_status,   \* status the last M.fetch returned
    search,         \* ids of the search reply (search[0].split())
    fetch_log,      \* ids handed to M.fetch, in order
    seen,           \* ids of the messages carrying the \Seen flag on the server
    outcome,        \* "none", "exit" (exit_json), "fail" (fail_json), "crash"
    output          \* the keyword arguments of exit_json / fail_json

vars == << variant, check_mode, PY3, params, result, pc, M_state, conn, calls,
           search_array, login_status, select_status, search_status,
           fetch_status, search, fetch_log, seen, outcome, output >>

-----------------------------------------------------------------------------
(* Bounds of the model *)

MaxIds == 2           \* longest search reply
MaxFilterLen == 2     \* most pairs in a filter dict

-----------------------------------------------------------------------------
(* Python values *)

\* Python's None is <<>>, any other value v is <<v>>
None == <<>>
Some(v) == << v >>

\* Python truthiness of an optional string: None and '' are false
Truthy(v) == v # None /\ v[1] # ""

Variants == {"basics", "notification"}

-----------------------------------------------------------------------------
(* Caller-supplied arguments *)

Hosts == {"imap.myhost.com"}
Users == {"myuser"}
Passwords == {"mypass", "hunter2"}
Ports == {None, Some(-1), Some(0), Some(42)}
FilterKeys == {"SUBJECT", "TO", "UNSEEN"}
FilterValues == {None, Some(""), Some("mysubject")}

\* dicts in iteration order: sequences of <<key, value>> with distinct keys
Filters ==
    { f \in UNION { [1..n -> FilterKeys \X FilterValues] : n \in 0..MaxFilterLen } :
        \A a, b \in DOMAIN f : a # b => f[a][1] # f[b][1] }

DefaultFilter == << <<"ALL", Some("")>> >>

Args(v) ==
    IF v = "basics"
    THEN [host : Hosts, username : Users, password : Passwords,
          tls : BOOLEAN, port : Ports, filter : {None} \cup {Some(f) : f \in Filters}]
    ELSE [host : Hosts, username : Users, password : Passwords,
          ssl : BOOLEAN, port : Ports]

\* argument_spec defaults
module_args(v, a) ==
    IF v = "basics"
    THEN [host |-> a.host, username |-> a.username, password |-> a.password,
          tls |-> a.tls,
          port |-> IF a.port = None THEN -1 ELSE a.port[1],
          mailbox |-> "INBOX",
          filter |-> IF a.filter = None THEN DefaultFilter ELSE a.filter[1]]
    ELSE [host |-> a.host, username |-> a.username, password |-> a.password,
          ssl |-> a.ssl, port |-> a.port]

\* BaseResult with the username and host values exchanged
BaseResultSwapped(v, p) ==
    IF v = "basics"
    THEN [changed |-> TRUE, username |-> p.host, host |-> p.username,
          mails |-> <<>>, mails_count |-> 0]
    ELSE [changed |-> FALSE, username |-> "", host |-> "", password |-> "",
          ssl |-> "", list |-> ""]

\* BaseResult echoing the password argument back
BaseResultEchoPassword(v, p) ==
    IF v = "basics"
    THEN [changed |-> TRUE, username |-> p.username, host |-> p.host,
          mails |-> <<>>, mails_count |-> 0, password |-> p.password]
    ELSE [changed |-> FALSE, username |-> "", host |-> "",
          password |-> p.password, ssl |-> "", list |-> ""]

\* result = dict(...)
BaseResult(v, p) ==
    IF v = "basics"
    THEN [changed |-> TRUE, username |-> p.username, host |-> p.host,
          mails |-> <<>>, mails_count |-> 0]
    ELSE [changed |-> FALSE, username |-> "", host |-> "", password |-> "",
          ssl |-> "", list |-> ""]

NoConn == [open |-> FALSE, secure |-> FALSE, host |-> "", port |-> None]
NoOutput == [none |-> TRUE]

-----------------------------------------------------------------------------
(* The mailbox on the server *)

Part(cte, payload) == [cte |-> cte, payload |-> payload]

Mailbox ==
    << [to |-> Some("a@example.com"), from |-> Some("b@example.com"),
        subject |-> Some("Invoice"), is_multipart |-> TRUE,
        parts |-> << Part("base64", "aGVsbG8="), Part("7bit", "attachment") >>],
       [to |-> Some("a@example.com"), from |-> Some("c@example.com"),
        subject |-> Some("=?utf-8?q?Re=3A?= Invoice"), is_multipart |-> TRUE,
        parts |-> << Part("quoted-printable", "caf=C3=A9") >>],
       [to |-> Some("a@example.com"), from |-> Some("d@example.com"),
        subject |-> Some("plain"), is_multipart |-> FALSE,
        parts |-> << Part("7bit", "hello") >>],
       [to |-> Some("a@example.com"), from |-> Some("e@example.com"),
        subject |-> None, is_multipart |-> TRUE,
        parts |-> << Part("7bit", "no subject") >>] >>

MsgIds == 1..Len(Mailbox)

\* id lists a search reply can hold
IdLists ==
    { s \in UNION { [1..n -> MsgIds] : n \in 0..MaxIds } :
        \A a, b \in DOMAIN s : a # b => s[a] # s[b] }

-----------------------------------------------------------------------------
(* Message decoding: message_parser, decode_header, get_payload *)

\* decode_header(h): the (text, charset) segments of a raw header, text only
HeaderSegments(raw) ==
    CASE raw = "=?utf-8?q?Re=3A?= Invoice" -> << "Re:", " Invoice" >>
      [] OTHER -> << raw >>

\* decode_header(None) raises TypeError on Python 3
HeaderRaises(h) == PY3 /\ h = None

\* decode_header(msg[name])[0][0]; on Python 2 the header is str(None) first
decode_header(h) ==
    IF h = None THEN "None" ELSE HeaderSegments(h[1])[1]

\* part.get_payload(None, True): the payload decoded from its transfer encoding
TransferDecode(part) ==
    CASE part.cte = "base64" /\ part.payload = "aGVsbG8=" -> "hello"
      [] part.cte = "quoted-printable" /\ part.payload = "caf=C3=A9" -> "cafe\\xc3\\xa9"
      [] OTHER -> part.payload

\* msg.get_payload(0) raises TypeError when the payload is not a list
PayloadRaises(msg) == ~msg.is_multipart

\* the dict appended to result['mails']
MailRecord(msg) ==
    [to |-> decode_header(msg.to),
     from |-> decode_header(msg.from),
     subject |-> decode_header(msg.subject),
     body |-> TransferDecode(msg.parts[1])]

\* building the dict raises
DecodeRaises(msg) ==
    \/ HeaderRaises(msg.to)
    \/ HeaderRaises(msg.from)
    \/ HeaderRaises(msg.subject)
    \/ PayloadRaises(msg)

-----------------------------------------------------------------------------
(* The search filter *)

\* AppendPair testing "v is not None" where the code tests the truth of v
AppendPairNotNone(acc, k, v) ==
    IF v # None THEN Append(Append(acc, k), v[1]) ELSE Append(acc, k)

\* search_array.append(k); if v: search_array.append(v)
AppendPair(acc, k, v) ==
    IF Truthy(v) THEN Append(Append(acc, k), v[1]) ELSE Append(acc, k)

\* for k, v in module.params['filter'].items(): ...
RECURSIVE make_filter(_, _)
make_filter(items, acc) ==
    IF items = <<>> THEN acc
    ELSE make_filter(Tail(items), AppendPair(acc, Head(items)[1], Head(items)[2]))

-----------------------------------------------------------------------------
(* Leaving run_module *)

\* exit_json handing control back to run_module instead of ending the process
ExitJsonReturns(res) ==
    /\ outcome' = "exit"
    /\ output' = res
    /\ pc' = pc

\* module.exit_json(**result)
exit_json(res) ==
    /\ outcome' = "exit"
    /\ output' = res
    /\ pc' = "done"

\* module.fail_json(msg=..., **result)
fail_json(msg, res) ==
    /\ outcome' = "fail"
    /\ output' = [msg |-> msg] @@ res
    /\ pc' = "done"

\* an exception no except clause catches
Traceback ==
    /\ outcome' = "crash"
    /\ output' = NoOutput
    /\ pc' = "done"

-----------------------------------------------------------------------------
(* run_module *)

Init ==
    \E v \in Variants, cm \in BOOLEAN, py \in BOOLEAN :
      \E a \in Args(v) :
        /\ variant = v
        /\ check_mode = cm
        /\ PY3 = py
        /\ params = module_args(v, a)
        /\ result = BaseResult(v, module_args(v, a))
        /\ pc = "check_mode"
        /\ M_state = "NONE"
        /\ conn = NoConn
        /\ calls = <<>>
        /\ search_array = <<>>
        /\ login_status = "none"
        /\ seen = {}
        /\ select_status = "none"
        /\ search_status = "none"
        /\ fetch_status = "none"
        /\ search = <<>>
        /\ fetch_log = <<>>
        /\ outcome = "none"
        /\ output = NoOutput

\* CheckModeReturns with the check_mode test left out
CheckModeIgnored(cm) == FALSE

\* if module.check_mode:
CheckModeReturns(cm) == cm

CheckMode ==
    /\ pc = "check_mode"
    /\ IF CheckModeReturns(check_mode)
       THEN exit_json(result)
       ELSE /\ pc' = "connect"
            /\ UNCHANGED << outcome, output >>
    /\ UNCHANGED << variant, check_mode, PY3, params, result, M_state, conn,
                    calls, search_array, select_status, search_status,
                    fetch_status, search, fetch_log, login_status, seen >>

\* module.params['tls'] / module.params['ssl']
Secure == IF variant = "basics" THEN params.tls ELSE params.ssl

\* port = 993 if module.params['port'] < 0 else module.params['port']
\* port = 993 if module.params['port'] is None else module.params['port']
EffectivePort(v, port, secure) ==
    IF v = "basics"
    THEN IF port < 0 THEN (IF secure THEN 993 ELSE 143) ELSE port
    ELSE IF port = None THEN (IF secure THEN 993 ELSE 143) ELSE port[1]

\* M = imaplib.IMAP4_SSL(host, port=port) / imaplib.IMAP4(host, port=port)
ConnectOK ==
    /\ pc = "connect"
    /\ calls' = Append(calls, "connect")
    /\ conn' = [open |-> TRUE, secure |-> Secure, host |-> params.host,
                port |-> Some(EffectivePort(variant, params.port, Secure))]
    /\ M_state' = "NONAUTH"
    /\ pc' = "login"
    /\ UNCHANGED << variant, check_mode, PY3, params, result, search_array,
                    select_status, search_status, fetch_status, search,
                    fetch_log, outcome, output, login_status, seen >>

\* except Exception as e: module.fail_json(msg=str(e), **result)
ConnectFail ==
    /\ pc = "connect"
    /\ calls' = Append(calls, "connect")
    /\ fail_json("connect: str(e)", result)
    /\ UNCHANGED << variant, check_mode, PY3, params, result, M_state, conn,
                    search_array, select_status, search_status, fetch_status,
                    search, fetch_log, login_status, seen >>

\* M.login(username, password)
LoginOK ==
    /\ pc = "login"
    /\ calls' = Append(calls, "login")
    /\ M_state' = "AUTH"
    /\ login_status' = "OK"
    /\ pc' = IF variant = "basics" THEN "select" ELSE "list"
    /\ UNCHANGED << variant, check_mode, PY3, params, result, conn,
                    search_array, select_status, search_status, fetch_status,
                    search, fetch_log, outcome, output, seen >>

\* except Exception as e: module.fail_json(msg=str(e), **result)
LoginFail ==
    /\ pc = "login"
    /\ calls' = Append(calls, "login")
    /\ login_status' = "rejected"
    /\ fail_json("login: str(e)", result)
    /\ UNCHANGED << variant, check_mode, PY3, params, result, M_state, conn,
                    search_array, select_status, search_status, fetch_status,
                    search, fetch_log, seen >>

\* M.list()  (notification only)
List ==
    /\ pc = "list"
    /\ calls' = Append(calls, "list")
    /\ \/ pc' = "select" /\ UNCHANGED << outcome, output >>
       \/ Traceback
    /\ UNCHANGED << variant, check_mode, PY3, params, result, M_state, conn,
                    search_array, select_status, search_status, fetch_status,
                    search, fetch_log, login_status, seen >>

\* M.select(module.params['mailbox']) / M.select('inbox'): the status is dropped.
\* imaplib returns a NO reply as a status and leaves the session in AUTH.
Select ==
    /\ pc = "select"
    /\ calls' = Append(calls, "select")
    /\ \E st \in {"OK", "NO"} :
         /\ select_status' = st
         /\ M_state' = IF st = "OK" THEN "SELECTED" ELSE "AUTH"
    /\ pc' = IF variant = "basics" THEN "filter" ELSE "search"
    /\ UNCHANGED << variant, check_mode, PY3, params, result, conn,
                    search_array, search_status, fetch_status, search,
                    fetch_log, outcome, output, login_status, seen >>

\* M.select raises (a BAD reply, a dropped connection)
SelectRaises ==
    /\ pc = "select"
    /\ calls' = Append(calls, "select")
    /\ Traceback
    /\ UNCHANGED << variant, check_mode, PY3, params, result, M_state, conn,
                    search_array, select_status, search_status, fetch_status,
                    search, fetch_log, login_status, seen >>

\* search_array = []; for k, v in module.params['filter'].items(): ...
MakeFilter ==
    /\ pc = "filter"
    /\ search_array' = make_filter(params.filter, <<>>)
    /\ pc' = "search"
    /\ UNCHANGED << variant, check_mode, PY3, params, result, M_state, conn,
                    calls, select_status, search_status, fetch_status, search,
                    fetch_log, outcome, output, login_status, seen >>

\* the criteria of M.search(None, ...)
SearchTokens ==
    IF variant = "basics" THEN search_array ELSE << "SUBJECT", "\"Alerta\"" >>

\* SearchFailed with the status test left out: a NO reply read as no matches
SearchNeverFailed(st) == FALSE

\* if status != 'OK':
SearchFailed(st) == st # "OK"

\* status, search = M.search(None, *search_array); if status != 'OK': fail_json
Search ==
    /\ pc = "search"
    /\ M_state = "SELECTED"
    /\ calls' = Append(calls, "search")
    /\ search_array' = SearchTokens
    /\ \E st \in {"OK", "NO"} :
         /\ search_status' = st
         /\ \E ids \in IF st = "OK" THEN IdLists ELSE { <<>> } : search' = ids
         /\ IF SearchFailed(st)
            THEN fail_json(IF variant = "basics" THEN "Error filtering" ELSE "Error",
                           result)
            ELSE /\ pc' = "fetch"
                 /\ UNCHANGED << outcome, output >>
    /\ UNCHANGED << variant, check_mode, PY3, params, result, M_state, conn,
                    select_status, fetch_status, fetch_log, login_status, seen >>

\* M.search raises: imaplib refuses SEARCH outside the SELECTED state, and
\* raises on a BAD reply or a dropped connection
SearchRaises ==
    /\ pc = "search"
    /\ calls' = Append(calls, "search")
    /\ search_array' = SearchTokens
    /\ Traceback
    /\ UNCHANGED << variant, check_mode, PY3, params, result, M_state, conn,
                    select_status, search_status, fetch_status, search,
                    fetch_log, login_status, seen >>

\* the ids the for loop has still to visit
Remaining == Len(search) - Len(fetch_log)

\* email_id stuck on the first id of the reply
EmailIdFirst == search[1]

\* email_id of the current iteration
email_id == search[Len(fetch_log) + 1]

\* if status != 'OK':
FetchFailed(st) == st # "OK"

\* AppendMail inserting at the head of the list
PrependMail(mails, rec) == << rec >> \o mails

\* result['mails'].append({...})
AppendMail(mails, rec) == Append(mails, rec)

\* message_parser(content[0][1]) and the dict built from it raise:
\* notification calls email.message_from_bytes, which Python 2 lacks
ParseRaises(msg) ==
    IF variant = "basics" THEN DecodeRaises(msg) ELSE ~PY3

\* the message part M.fetch asks for
FetchItem == "(RFC822)"

\* an IMAP server sets \Seen on a message whose RFC822, RFC822.TEXT or BODY[]
\* is fetched from a mailbox opened with SELECT; the .PEEK and header items
\* leave the flag alone (RFC 3501, 6.4.5)
SetsSeen(item) == item \in {"(RFC822)", "(RFC822.TEXT)", "(BODY[])"}

\* one iteration of: for email_id in search[0].split():
Fetch ==
    /\ pc = "fetch"
    /\ Remaining > 0
    /\ calls' = Append(calls, "fetch")
    /\ fetch_log' = Append(fetch_log, email_id)
    /\ \E st \in {"OK", "NO"} :
         /\ fetch_status' = st
         /\ IF FetchFailed(st)
            THEN /\ fail_json(IF variant = "basics" THEN "Error parsing" ELSE "Error",
                              result)
                 /\ UNCHANGED result
            ELSE IF ParseRaises(Mailbox[email_id])
            THEN /\ Traceback
                 /\ UNCHANGED result
            ELSE /\ result' = IF variant = "basics"
                              THEN [result EXCEPT !.mails =
                                      AppendMail(@, MailRecord(Mailbox[email_id]))]
                              ELSE result
                 /\ UNCHANGED << pc, outcome, output >>
         /\ seen' = IF st = "OK" /\ SetsSeen(FetchItem)
                    THEN seen \cup { email_id }
                    ELSE seen
    /\ UNCHANGED << variant, check_mode, PY3, params, M_state, conn,
                    search_array, select_status, search_status, search,
                    login_status >>

\* M.fetch raises (a BAD reply, a dropped connection)
FetchRaises ==
    /\ pc = "fetch"
    /\ Remaining > 0
    /\ calls' = Append(calls, "fetch")
    /\ fetch_log' = Append(fetch_log, email_id)
    /\ fetch_status' = "raised"
    /\ Traceback
    /\ UNCHANGED << variant, check_mode, PY3, params, result, M_state, conn,
                    search_array, select_status, search_status, search,
                    login_status, seen >>

\* result['mails_count'] = len(result['mails'])
CountMails(res) ==
    IF variant = "basics" THEN [res EXCEPT !.mails_count = Len(res.mails)] ELSE res

\* Finish reporting an empty search reply as a failure
FinishFailsOnEmpty ==
    /\ pc = "fetch"
    /\ Remaining = 0
    /\ result' = CountMails(result)
    /\ IF search = <<>>
       THEN fail_json("No mails", CountMails(result))
       ELSE exit_json(CountMails(result))
    /\ UNCHANGED << variant, check_mode, PY3, params, M_state, conn, calls,
                    search_array, select_status, search_status, fetch_status,
                    search, fetch_log, login_status, seen >>

\* after the loop: set mails_count, module.exit_json(**result)
Finish ==
    /\ pc = "fetch"
    /\ Remaining = 0
    /\ result' = CountMails(result)
    /\ exit_json(CountMails(result))
    /\ UNCHANGED << variant, check_mode, PY3, params, M_state, conn, calls,
                    search_array, select_status, search_status, fetch_status,
                    search, fetch_log, login_status, seen >>

Next ==
    \/ CheckMode
    \/ ConnectOK
    \/ ConnectFail
    \/ LoginOK
    \/ LoginFail
    \/ List
    \/ Select
    \/ SelectRaises
    \/ MakeFilter
    \/ Search
    \/ SearchRaises
    \/ Fetch
    \/ FetchRaises
    \/ Finish

Spec == Init /\ [][Next]_vars

\* run_module is one thread of straight-line code: a statement that can run
\* does run, and every imaplib call returns or raises
SpecFair == Init /\ [][Next]_vars /\ WF_vars(Next)

-----------------------------------------------------------------------------
(* Claims *)

Range(seq) == { seq[i] : i \in DOMAIN seq }
Count(seq, x) == Cardinality({ i \in DOMAIN seq : seq[i] = x })
Reported == outcome \in {"exit", "fail"}

\* C1: in every result basics hands to exit_json or fail_json, mails_count
\* equals the number of entries in mails.
C1_CountEqualsMails ==
    (variant = "basics" /\ Reported) => output.mails_count = Len(output.mails)

\* C2: when the fetch of the k-th id returns a non-OK status, the failure
\* output's mails is empty, not the k-1 records decoded before.
C2_NoPartialListOnFetchFailure ==
    (variant = "basics" /\ fetch_status = "NO" /\ outcome = "fail")
        => output.mails = <<>>

\* C3: on every exit path the connection that was opened has been closed
\* exactly once when the outcome is reported.
C3_ClosedExactlyOnce ==
    (variant = "basics" /\ pc = "done" /\ conn.open)
        => Count(calls, "close") + Count(calls, "logout") = 1

\* C4: whenever basics reports success, mails holds one record per id of the
\* search reply, mails[i] is the decoded fetch result of the i-th id, and
\* mails_count is the number of ids.
C4_SuccessIsComplete ==
    (variant = "basics" /\ outcome = "exit") =>
        /\ Len(output.mails) = Len(search)
        /\ output.mails_count = Len(search)
        /\ fetch_log = search
        /\ \A i \in DOMAIN search :
             LET msg == Mailbox[search[i]] IN
             /\ ~DecodeRaises(msg)
             /\ output.mails[i] = MailRecord(msg)

C4_Witness ==
    /\ variant = "basics"
    /\ outcome = "exit"
    /\ Len(search) = 2
    /\ search[1] > search[2]
    /\ output.mails[1] # output.mails[2]

\* C5: if select is rejected no search and no fetch is issued afterwards, and
\* search is only ever issued while the session is in the SELECTED state.
C5_SearchOnlyWhenSelected ==
    variant = "basics" =>
        /\ select_status = "NO" =>
             /\ "search" \notin Range(calls)
             /\ "fetch" \notin Range(calls)
        /\ "search" \in Range(calls) => M_state = "SELECTED"

\* the output carries no mail record
NoMailRecord(out) ==
    IF variant = "basics"
    THEN out.mails = <<>> /\ out.mails_count = 0
    ELSE out.list = ""

\* C6: when search returns a status other than OK the pipeline reports a
\* failure, no fetch is issued, and the output carries no mail record.
C6_SearchFailureReported ==
    (search_status \notin {"none", "OK"}) =>
        /\ outcome = "fail"
        /\ "fetch" \notin Range(calls)
        /\ fetch_log = <<>>
        /\ NoMailRecord(output)

C6_Witness ==
    /\ search_status = "NO"
    /\ pc = "done"
    /\ calls[Len(calls)] = "search"

\* C7: in check mode basics returns the base result, opens no connection
\* and issues no server command.
C7_DryRun ==
    (variant = "basics" /\ check_mode) =>
        /\ calls = <<>>
        /\ ~conn.open
        /\ M_state = "NONE"
        /\ pc = "done" =>
             /\ outcome = "exit"
             /\ output = [changed |-> TRUE, username |-> params.username,
                          host |-> params.host, mails |-> <<>>, mails_count |-> 0]

C7_Witness ==
    /\ variant = "basics"
    /\ check_mode
    /\ pc = "done"
    /\ outcome = "exit"

\* C8: for every filter the token sequence passed to search is non-empty,
\* and for the empty filter it is exactly <<"ALL">>.
C8_TokensNonEmpty ==
    (variant = "basics" /\ "search" \in Range(calls)) =>
        /\ search_array # <<>>
        /\ params.filter = <<>> => search_array = << "ALL" >>

\* pairs of F with a non-empty value among the first i
ValuesIn(F, i) == Cardinality({ j \in 1..i : Truthy(F[j][2]) })

SuppliedPort == IF variant = "basics" THEN Some(params.port) ELSE params.port

\* C10: the port used to open the connection is p when p is set and
\* non-negative, otherwise 993 with the security flag and 143 without; the
\* secure transport is used exactly when the flag is true.
C10_EffectivePort ==
    conn.open =>
        LET p == SuppliedPort IN
        /\ conn.port = Some(IF p # None /\ p[1] >= 0 THEN p[1]
                            ELSE IF Secure THEN 993 ELSE 143)
        /\ conn.secure = Secure

\* C11: when the server rejects the login, basics reports a failure whose
\* output has the supplied host and username, mails = [] and mails_count = 0,
\* and no select, search or fetch follows the rejected login.
C11_LoginRejected ==
    (variant = "basics" /\ login_status = "rejected") =>
        /\ outcome = "fail"
        /\ output.host = params.host
        /\ output.username = params.username
        /\ output.mails = <<>>
        /\ output.mails_count = 0
        /\ calls = << "connect", "login" >>

C11_Witness ==
    /\ variant = "basics"
    /\ login_status = "rejected"
    /\ pc = "done"
    /\ calls[Len(calls)] = "login"

\* C12: every failure output, whichever stage failed, carries a message and
\* has host and username equal to the values the caller supplied.
C12_FailureCarriesContext ==
    outcome = "fail" =>
        /\ output.msg # ""
        /\ output.host = params.host
        /\ output.username = params.username

\* the number of fetched messages that were decoded
Decoded ==
    IF fetch_status \in {"NO", "raised"} THEN Len(fetch_log) - 1 ELSE Len(fetch_log)

\* the message of a failure, read off the replies the server gave
FailureMessage ==
    IF login_status = "rejected" THEN "login: str(e)"
    ELSE IF search_status = "NO"
         THEN (IF variant = "basics" THEN "Error filtering" ELSE "Error")
    ELSE IF fetch_status = "NO"
         THEN (IF variant = "basics" THEN "Error parsing" ELSE "Error")
    ELSE "connect: str(e)"

\* the output as a function of the host, the username and the server's
\* replies: nothing in it is read from the password
PasswordFreeOutput ==
    LET mails == [ i \in 1..Decoded |-> MailRecord(Mailbox[fetch_log[i]]) ]
        res == IF variant = "basics"
               THEN [changed |-> TRUE, username |-> params.username,
                     host |-> params.host, mails |-> mails,
                     mails_count |-> IF outcome = "exit" THEN Decoded ELSE 0]
               ELSE [changed |-> FALSE, username |-> "", host |-> "",
                     password |-> "", ssl |-> "", list |-> ""]
    IN  IF outcome = "fail" THEN [msg |-> FailureMessage] @@ res ELSE res

\* the strings an output holds
OutputStrings(out) ==
    {out.host, out.username}
        \cup (IF outcome = "fail" THEN {out.msg} ELSE {})
        \cup (IF variant = "basics"
              THEN UNION { {out.mails[i].to, out.mails[i].from,
                            out.mails[i].subject, out.mails[i].body} :
                           i \in DOMAIN out.mails }
              ELSE {out.password, out.ssl, out.list})

Rank(c) ==
    CASE c = "connect" -> 1
      [] c = "login" -> 2
      [] c = "list" -> 3
      [] c = "select" -> 4
      [] c = "search" -> 5
      [] OTHER -> 6

LastCall == calls[Len(calls)]

\* C14: connect, login, select and search are each issued at most once and
\* in that order, and after a stage has failed no further server command is
\* issued.
C14_ForwardOnly ==
    variant = "basics" =>
        /\ \A c \in {"connect", "login", "select", "search"} : Count(calls, c) <= 1
        /\ \A i, j \in DOMAIN calls : i < j => Rank(calls[i]) <= Rank(calls[j])
        /\ login_status = "rejected" => LastCall = "login"
        /\ select_status = "NO" => LastCall = "select"
        /\ search_status = "NO" => LastCall = "search"
        /\ fetch_status \in {"NO", "raised"} => (LastCall = "fetch" /\ pc = "done")
        /\ outcome # "none" => pc = "done"

\* C15: the fetch of the next id is issued only after every earlier id was
\* fetched, decoded and appended; each id of the search reply is fetched at
\* most once and no other id is fetched.
C15_SequentialFetch ==
    variant = "basics" =>
        /\ Len(fetch_log) <= Len(search)
        /\ fetch_log = SubSeq(search, 1, Len(fetch_log))
        /\ \A i, j \in DOMAIN fetch_log : i # j => fetch_log[i] # fetch_log[j]
        /\ Count(calls, "fetch") = Len(fetch_log)
        /\ pc = "fetch" => Len(result.mails) = Len(fetch_log)
        /\ \A i \in DOMAIN result.mails :
             result.mails[i] = MailRecord(Mailbox[fetch_log[i]])

C15_Witness ==
    /\ variant = "basics"
    /\ pc = "fetch"
    /\ Len(fetch_log) = 2
    /\ Len(result.mails) = 2

\* C16: when search succeeds with an empty id list, basics issues no fetch
\* and reports success with mails = [] and mails_count = 0.
C16_EmptySearchIsSuccess ==
    (variant = "basics" /\ search_status = "OK" /\ search = <<>>) =>
        /\ "fetch" \notin Range(calls)
        /\ outcome \in {"none", "exit"}
        /\ pc = "done" =>
             /\ outcome = "exit"
             /\ output.mails = <<>>
             /\ output.mails_count = 0

C16_Witness ==
    /\ variant = "basics"
    /\ search_status = "OK"
    /\ search = <<>>
    /\ pc = "done"
    /\ outcome = "exit"

\* the message the last fetch returned, and the record last appended
LastFetched == Mailbox[fetch_log[Len(fetch_log)]]
LastMail == result.mails[Len(result.mails)]

\* C17: decoding succeeds for both body shapes: a multipart message gives the
\* first part's payload decoded from its transfer encoding, a single-part
\* message gives its payload; to, from and subject are the header values.
C17_BothBodyShapes ==
    (/\ variant = "basics"
     /\ fetch_status = "OK"
     /\ LastFetched.to # None
     /\ LastFetched.from # None
     /\ LastFetched.subject # None) =>
        /\ outcome # "crash"
        /\ Len(result.mails) = Len(fetch_log)
        /\ LastMail.body = IF LastFetched.is_multipart
                           THEN TransferDecode(LastFetched.parts[1])
                           ELSE LastFetched.parts[1].payload
        /\ LastMail.to = decode_header(LastFetched.to)
        /\ LastMail.from = decode_header(LastFetched.from)
        /\ LastMail.subject = decode_header(LastFetched.subject)

\* the field a header gives: '' when the header is missing
FieldOf(h) == IF h = None THEN "" ELSE decode_header(h)

\* C18: when a fetched message lacks the to, from or subject header, decoding
\* still succeeds and the field of the record is the empty string.
C18_MissingHeaderIsEmpty ==
    (/\ variant = "basics"
     /\ fetch_status = "OK"
     /\ LastFetched.is_multipart) =>
        /\ outcome # "crash"
        /\ Len(result.mails) = Len(fetch_log)
        /\ LastMail.to = FieldOf(LastFetched.to)
        /\ LastMail.from = FieldOf(LastFetched.from)
        /\ LastMail.subject = FieldOf(LastFetched.subject)

\* C19: a retrieval mutates no server-side state: the per-message flags
\* (none is set when the run starts) are the same after a completed retrieval
\* as before it.
C19_NoServerMutation ==
    (variant = "basics" /\ outcome = "exit") => seen = {}

\* the ways an invocation ends: exit_json, fail_json, or an exception that
\* leaves run_module
Outcomes == {"exit", "fail", "crash"}

====
